---- MODULE Spec2Model ----
(***************************************************************************)
(* Matchmaking and quiz-duel session of backend/api/matchmaking/handler.go *)
(*                                                                         *)
(* One handler goroutine runs per WebSocket connection; a connection is    *)
(* identified with the handler that owns it.  The critical sections of     *)
(* roomsMutex are modelled with an explicit lock holder.  Time is          *)
(* abstracted: a timer may have fired at any moment after it was armed.    *)
(* The questions table does not change while a session runs.               *)
(*                                                                         *)
(*   Spec         every handler from its connection to the start of the    *)
(*                game session (MatchmakingHandler, waitForMatch and the   *)
(*                opening of handleGameSession), on connections that stay  *)
(*                up.                                                      *)
(*   FairSpec     Spec with every handler scheduled again and again.       *)
(*   SpecSession  handleGameSession of one matched room, all its rounds,   *)
(*                with the goroutines it starts, both clients sending and  *)
(*                connections dropping.                                    *)
(*   SpecDraw     the same session over every size of the questions table  *)
(*                with silent clients: the round loop and the draws.       *)
(***************************************************************************)
EXTENDS Integers, Sequences, FiniteSets, TLC

\* ---- bounds of the model ------------------------------------------------
NumConns == 3           \* connections (handlers) that may arrive
MaxQuestions == 6       \* largest row count of the questions table
MaxClientMsgs == 2      \* messages the two clients send during one session
MaxSessionQuestions == 2 \* largest questions table of a session with clients

\* ---- program constants --------------------------------------------------
number_of_questions == 5

Conns == 1..NumConns
PlayerIds == {"alice", "draw"}     \* cookie values; any string is accepted
NoCookie == "<no cookie>"
NoConn == 0
NoRoom == 0
Free == 0
None == "<none>"

VARIABLES
    rooms,          \* ids present in the registry map `rooms`
    room,           \* the Room objects ever allocated, by id
    nextRoomID,     \* value the next generateRoomID call returns
    roomsMutex,     \* Free or the handler holding roomsMutex
    pc,             \* position of every handler
    cookie,         \* r.Cookie("username") of every handler
    myRoom,         \* matchedRoom / newRoom of every handler
    open,           \* connection usable (not dropped, not closed)
    sent,           \* WriteJSON calls per connection, in order, since the
                    \* connection was made or the current round began
    dbQuestions,    \* rows of the questions table
    inbox,          \* client messages not yet read, per connection
    msgsLeft,       \* messages the clients may still send
    totalQuestions, \* handleGameSession locals ...
    questionCount,
    usedQuestionIDs,
    question,
    player1Score,
    player2Score,
    answerRights,   \* the answerRights channel of every round: its buffer
    listeners,      \* live handleAnswerRequest goroutines
    playerID,       \* value received from answerRights in this round
    readers,        \* live answer-reading goroutines of handlePlayerAnswer
    answerChan,     \* value offered on answerChan of this round
    answered,
    ratingCalls     \* requests handed to rate.CalculateRatingHandler

matchVars == <<rooms, room, nextRoomID, roomsMutex, cookie, myRoom>>
envVars == <<dbQuestions, inbox, msgsLeft>>
gameVars == <<totalQuestions, questionCount, usedQuestionIDs, question,
              player1Score, player2Score, ratingCalls>>
raceVars == <<answerRights, listeners, playerID, readers, answerChan,
              answered>>
sessVars == <<envVars, gameVars, raceVars>>

vars == <<matchVars, pc, open, sent, sessVars>>

\* ---- messages -----------------------------------------------------------
\* one WriteJSON call: it fails on a connection that is no longer usable
Msg(to, status, id, aux, n1, n2) ==
    [to |-> to, status |-> status, ok |-> open[to],
     id |-> id, aux |-> aux, n1 |-> n1, n2 |-> n2]

Write(log, to, status, id, aux, n1, n2) ==
    [log EXCEPT ![to] = Append(@, Msg(to, status, id, aux, n1, n2))]

WriteJSON(log, to, status) == Write(log, to, status, "", "", 0, 0)

WriteRoom(log, to, status, r) == Write(log, to, status, "", "", r, 0)

\* a broadcast that reaches the first connection only
Write2First(log, c1, c2, status, id, aux, n1, n2) ==
    Write(log, c1, status, id, aux, n1, n2)

\* the same payload to Player1Conn, then to Player2Conn
Write2(log, c1, c2, status, id, aux, n1, n2) ==
    Write(Write(log, c1, status, id, aux, n1, n2),
          c2, status, id, aux, n1, n2)

Statuses(log, c) == {log[c][i].status : i \in 1..Len(log[c])}

Count(log, c, status) ==
    Cardinality({i \in 1..Len(log[c]) : log[c][i].status = status})

\* ---- Room ---------------------------------------------------------------
NewRoom(id, player, conn) ==
    [ID |-> id, PlayerID |-> player, Player2ID |-> "", IsMatched |-> FALSE,
     Player1Conn |-> conn, Player2Conn |-> NoConn]

generateRoomID == nextRoomID

\* the loop condition of the scan for a free room
Compatible(r, player) == r.PlayerID # player /\ ~r.IsMatched

\* a lock that never makes its caller wait
MutexIgnored == TRUE

\* roomsMutex.Lock() may proceed
MutexFree == roomsMutex = Free

\* a delete that leaves the entry in the map
DeleteSkipped(registry, id) == registry

\* delete(rooms, room.ID)
Delete(registry, id) == registry \ {id}

Min(a, b) == IF a < b THEN a ELSE b

\* state of a session that has not begun
SessInit ==
    /\ inbox = [c \in Conns |-> <<>>]
    /\ msgsLeft = MaxClientMsgs
    /\ totalQuestions = 0
    /\ questionCount = 0
    /\ usedQuestionIDs = {}
    /\ question = 0
    /\ player1Score = 0
    /\ player2Score = 0
    /\ answerRights = <<>>
    /\ listeners = {}
    /\ playerID = None
    /\ readers = {}
    /\ answerChan = None
    /\ answered = FALSE
    /\ ratingCalls = <<>>

Init ==
    /\ rooms = {}
    /\ room = <<>>
    /\ nextRoomID = 1
    /\ roomsMutex = Free
    /\ pc = [h \in Conns |-> "idle"]
    /\ cookie = [h \in Conns |-> NoCookie]
    /\ myRoom = [h \in Conns |-> NoRoom]
    /\ open = [h \in Conns |-> TRUE]
    /\ sent = [c \in Conns |-> <<>>]
    /\ dbQuestions = number_of_questions
    /\ SessInit

\* ---- MatchmakingHandler -------------------------------------------------
\* upgrade, cookie check; without the cookie: "unauthorized" and return
Connect(h) ==
    /\ pc[h] = "idle"
    /\ \E ck \in PlayerIds \cup {NoCookie} :
         /\ cookie' = [cookie EXCEPT ![h] = ck]
         /\ IF ck = NoCookie
              THEN /\ sent' = WriteJSON(sent, h, "unauthorized")
                   /\ pc' = [pc EXCEPT ![h] = "done"]
                   /\ open' = [open EXCEPT ![h] = FALSE]
              ELSE /\ pc' = [pc EXCEPT ![h] = "lock"]
                   /\ UNCHANGED <<sent, open>>
    /\ UNCHANGED <<rooms, room, nextRoomID, roomsMutex, myRoom, sessVars>>

Lock(h) ==
    /\ pc[h] = "lock"
    /\ MutexFree
    /\ roomsMutex' = h
    /\ pc' = [pc EXCEPT ![h] = "scan"]
    /\ UNCHANGED <<rooms, room, nextRoomID, cookie, myRoom, open, sent,
                   sessVars>>

\* range over the map (iteration order is unspecified): first compatible room
Scan(h) ==
    /\ pc[h] = "scan"
    /\ IF \E r \in rooms : Compatible(room[r], cookie[h])
         THEN \E r \in rooms :
                /\ Compatible(room[r], cookie[h])
                /\ room' = [room EXCEPT ![r].IsMatched = FALSE,
                                        ![r].Player2ID = cookie[h]]
                /\ myRoom' = [myRoom EXCEPT ![h] = r]
                /\ pc' = [pc EXCEPT ![h] = "match"]
         ELSE /\ pc' = [pc EXCEPT ![h] = "create"]
              /\ UNCHANGED <<room, myRoom>>
    /\ UNCHANGED <<rooms, nextRoomID, roomsMutex, cookie, open, sent,
                   sessVars>>

Match(h) ==
    /\ pc[h] = "match"
    /\ room' = [room EXCEPT ![myRoom[h]].IsMatched = TRUE,
                            ![myRoom[h]].Player2ID = cookie[h],
                            ![myRoom[h]].Player2Conn = h]
    /\ roomsMutex' = Free
    /\ pc' = [pc EXCEPT ![h] = "notifyP1"]
    /\ UNCHANGED <<rooms, nextRoomID, cookie, myRoom, open, sent, sessVars>>

NotifyP1(h) ==
    /\ pc[h] = "notifyP1"
    /\ sent' = WriteRoom(sent, room[myRoom[h]].Player1Conn, "matched",
                         myRoom[h])
    /\ pc' = [pc EXCEPT ![h] = "notifySelf"]
    /\ UNCHANGED <<matchVars, open, sessVars>>

\* after its own "matched" the joiner reaches `select {}`
NotifySelf(h) ==
    /\ pc[h] = "notifySelf"
    /\ sent' = WriteRoom(sent, h, "matched", myRoom[h])
    /\ pc' = [pc EXCEPT ![h] = "select"]
    /\ UNCHANGED <<matchVars, open, sessVars>>

Create(h) ==
    /\ pc[h] = "create"
    /\ LET id == generateRoomID IN
         /\ room' = (id :> NewRoom(id, cookie[h], h)) @@ room
         /\ rooms' = rooms \cup {id}
         /\ myRoom' = [myRoom EXCEPT ![h] = id]
    /\ nextRoomID' = nextRoomID + 1
    /\ roomsMutex' = Free
    /\ pc' = [pc EXCEPT ![h] = "sendWaiting"]
    /\ UNCHANGED <<cookie, open, sent, sessVars>>

SendWaiting(h) ==
    /\ pc[h] = "sendWaiting"
    /\ sent' = WriteRoom(sent, h, "waiting", myRoom[h])
    /\ pc' = [pc EXCEPT ![h] = "waitCheck"]
    /\ UNCHANGED <<matchVars, open, sessVars>>

\* ---- waitForMatch -------------------------------------------------------
\* Lock; if room.IsMatched return true; Unlock
WaitCheck(h) ==
    /\ pc[h] = "waitCheck"
    /\ MutexFree
    /\ pc' = [pc EXCEPT ![h] = IF room[myRoom[h]].IsMatched
                                 THEN "session" ELSE "waitSelect"]
    /\ UNCHANGED <<matchVars, open, sent, sessVars>>

\* select { case <-ticker.C: ...  default: time.Sleep }: the branch taken
\* depends on whether the 30 s ticker has delivered a tick by now
WaitSelect(h) ==
    /\ pc[h] = "waitSelect"
    /\ \/ pc' = [pc EXCEPT ![h] = "waitTick"]
       \/ pc' = [pc EXCEPT ![h] = "waitCheck"]
    /\ UNCHANGED <<matchVars, open, sent, sessVars>>

\* the ticker branch: Lock; if !IsMatched {delete; "timeout"; return false}
WaitTick(h) ==
    /\ pc[h] = "waitTick"
    /\ MutexFree
    /\ IF ~room[myRoom[h]].IsMatched
         THEN /\ rooms' = Delete(rooms, myRoom[h])
              /\ sent' = WriteJSON(sent, room[myRoom[h]].Player1Conn,
                                   "timeout")
              /\ pc' = [pc EXCEPT ![h] = "done"]
              /\ open' = [open EXCEPT ![h] = FALSE]
         ELSE /\ pc' = [pc EXCEPT ![h] = "waitCheck"]
              /\ UNCHANGED <<rooms, sent, open>>
    /\ UNCHANGED <<room, nextRoomID, roomsMutex, cookie, myRoom, sessVars>>

\* ---- handleGameSession --------------------------------------------------
Player1Conn(h) == room[myRoom[h]].Player1Conn
Player2Conn(h) == room[myRoom[h]].Player2Conn

\* handler h returns: the deferred conn.Close() runs
Return(h) ==
    /\ pc' = [pc EXCEPT ![h] = "done"]
    /\ open' = [open EXCEPT ![h] = FALSE]

\* a round count that ignores the size of the table
questionsUncapped == number_of_questions

questionsPerGame == Min(number_of_questions, totalQuestions)

\* a loop test that is one round short
LoopPcShort(count, perGame) == IF count + 1 < perGame THEN "draw" ELSE "final"

\* the loop test `questionCount < questionsPerGame`
LoopPc(count, perGame) == IF count < perGame THEN "draw" ELSE "final"

\* SELECT COUNT(*) FROM questions
SessCount(h) ==
    /\ pc[h] = "session"
    /\ \/ /\ Return(h)                      \* query error
          /\ UNCHANGED totalQuestions
       \/ /\ totalQuestions' = dbQuestions
          /\ pc' = [pc EXCEPT ![h] = "gameStart1"]
          /\ UNCHANGED open
    /\ UNCHANGED <<matchVars, sent, envVars, questionCount, usedQuestionIDs,
                   question, player1Score, player2Score, ratingCalls,
                   raceVars>>

GameStart1(h) ==
    /\ pc[h] = "gameStart1"
    /\ sent' = WriteJSON(sent, Player1Conn(h), "game_start")
    /\ IF open[Player1Conn(h)]
         THEN /\ pc' = [pc EXCEPT ![h] = "gameStart2"]
              /\ UNCHANGED open
         ELSE Return(h)
    /\ UNCHANGED <<matchVars, sessVars>>

GameStart2(h) ==
    /\ pc[h] = "gameStart2"
    /\ sent' = WriteJSON(sent, Player2Conn(h), "game_start")
    /\ IF open[Player2Conn(h)]
         THEN /\ pc' = [pc EXCEPT ![h] = LoopPc(questionCount,
                                                questionsPerGame)]
              /\ UNCHANGED open
         ELSE Return(h)
    /\ UNCHANGED <<matchVars, sessVars>>

\* the questions table: question q has correct answer CorrectAnswer(q)
CorrectAnswer(q) == IF q % 2 = 1 THEN "x" ELSE "y"

\* a test that accepts every row
UnusedUnchecked(used, q) == TRUE

\* the test `!usedQuestionIDs[question.ID]`
Unused(used, q) == q \notin used

\* SELECT ... ORDER BY RAND() LIMIT 1, repeated until the row is unused
Draw(h) ==
    /\ pc[h] = "draw"
    /\ \/ /\ Return(h)                      \* query error
          /\ UNCHANGED <<usedQuestionIDs, question, sent>>
       \/ \E q \in 1..dbQuestions :
            IF Unused(usedQuestionIDs, q)
              THEN /\ usedQuestionIDs' = usedQuestionIDs \cup {q}
                   /\ question' = q
                   /\ pc' = [pc EXCEPT ![h] = "sendQuestion"]
                   /\ sent' = [sent EXCEPT ![Player1Conn(h)] = <<>>,
                                           ![Player2Conn(h)] = <<>>]
                   /\ UNCHANGED open
              ELSE UNCHANGED <<usedQuestionIDs, question, pc, sent, open>>
    /\ UNCHANGED <<matchVars, envVars, totalQuestions, questionCount,
                   player1Score, player2Score, ratingCalls, raceVars>>

\* the "question" broadcast; a failed write ends the session
SendQuestion(h) ==
    /\ pc[h] = "sendQuestion"
    /\ IF ~open[Player1Conn(h)]
         THEN /\ sent' = Write(sent, Player1Conn(h), "question", "", "",
                               question, 0)
              /\ Return(h)
         ELSE /\ sent' = Write2(sent, Player1Conn(h), Player2Conn(h),
                                "question", "", "", question, 0)
              /\ IF open[Player2Conn(h)]
                   THEN /\ pc' = [pc EXCEPT ![h] = "arm"]
                        /\ UNCHANGED open
                   ELSE Return(h)
    /\ UNCHANGED <<matchVars, envVars, totalQuestions, questionCount,
                   usedQuestionIDs, question, player1Score, player2Score,
                   ratingCalls, raceVars>>

Listener(c, ch, id) == [conn |-> c, ch |-> ch, id |-> id]

\* Sleep(1 s); make(chan string, 1); time.After(10 s); go handleAnswerRequest
Arm(h) ==
    /\ pc[h] = "arm"
    /\ answerRights' = (questionCount :> <<>>) @@ answerRights
    /\ listeners' = listeners \cup
         {Listener(Player1Conn(h), questionCount, room[myRoom[h]].PlayerID),
          Listener(Player2Conn(h), questionCount, room[myRoom[h]].Player2ID)}
    /\ answered' = FALSE
    /\ pc' = [pc EXCEPT ![h] = "race"]
    /\ UNCHANGED <<matchVars, open, sent, envVars, gameVars, playerID,
                   readers, answerChan>>

\* select { case playerID := <-answerRights: ... }
RaceClaimed(h) ==
    /\ pc[h] = "race"
    /\ answerRights[questionCount] # <<>>
    /\ playerID' = Head(answerRights[questionCount])
    /\ answerRights' = [answerRights EXCEPT ![questionCount] = Tail(@)]
    /\ pc' = [pc EXCEPT ![h] = "granted"]
    /\ UNCHANGED <<matchVars, open, sent, envVars, gameVars, listeners,
                   readers, answerChan, answered>>

\* select { ... case <-answerTimeout: ... }: the 10 s timer has fired
RaceExpired(h) ==
    /\ pc[h] = "race"
    /\ pc' = [pc EXCEPT ![h] = "roundTimeout"]
    /\ UNCHANGED <<matchVars, open, sent, sessVars>>

\* the two branches exchanged
HolderConnSwapped(r, id) ==
    IF id = r.PlayerID THEN r.Player2Conn ELSE r.Player1Conn

\* handlePlayerAnswer: the connection the answer is read from, and the other
HolderConn(r, id) ==
    IF id = r.PlayerID THEN r.Player1Conn ELSE r.Player2Conn

OtherConn(r, id) ==
    IF id = r.PlayerID THEN r.Player2Conn ELSE r.Player1Conn

\* "answer_rights_granted" to both (errors only logged), then
\* handlePlayerAnswer starts its reader goroutine and its 5 s timer
Granted(h) ==
    /\ pc[h] = "granted"
    /\ sent' = Write2(sent, Player1Conn(h), Player2Conn(h),
                      "answer_rights_granted", playerID, "", 0, 0)
    /\ readers' = readers \cup
         {[conn |-> HolderConn(room[myRoom[h]], playerID),
           ch |-> questionCount]}
    /\ answerChan' = None
    /\ pc' = [pc EXCEPT ![h] = "collect"]
    /\ UNCHANGED <<matchVars, open, envVars, gameVars, answerRights,
                   listeners, playerID, answered>>

\* handlePlayerAnswer: select { case answer := <-answerChan: ... }
CollectAnswer(h) ==
    /\ pc[h] = "collect"
    /\ answerChan # None
    /\ LET isCorrect == answerChan = CorrectAnswer(question)
       IN /\ sent' = Write2(sent, HolderConn(room[myRoom[h]], playerID),
                            OtherConn(room[myRoom[h]], playerID),
                            "answer_result",
                            IF isCorrect THEN "correct" ELSE "incorrect",
                            answerChan, 0, 0)
          /\ answered' = isCorrect
    /\ answerChan' = None
    /\ pc' = [pc EXCEPT ![h] = "score"]
    /\ UNCHANGED <<matchVars, open, envVars, gameVars, answerRights,
                   listeners, playerID, readers>>

\* handlePlayerAnswer: select { ... case <-answerTimeout: ... }: 5 s are over
CollectExpired(h) ==
    /\ pc[h] = "collect"
    /\ sent' = Write2(sent, HolderConn(room[myRoom[h]], playerID),
                      OtherConn(room[myRoom[h]], playerID),
                      "answer_result", "incorrect", "time is up", 0, 0)
    /\ answered' = FALSE
    /\ answerChan' = None
    /\ pc' = [pc EXCEPT ![h] = "score"]
    /\ UNCHANGED <<matchVars, open, envVars, gameVars, answerRights,
                   listeners, playerID, readers>>

\* the channels still referenced: those a live listener holds and those in
\* `keep`, the one the running iteration holds
Held(chans, ls, keep) ==
    [k \in {k \in DOMAIN chans : k \in keep \/ \E l \in ls : l.ch = k}
       |-> chans[k]]

\* a score that grows whatever the judgement
BumpAlways(score, hit) == score + 1

\* the score a player has after a judged answer
Bump(score, hit) == IF hit THEN score + 1 ELSE score

\* if answered { score++; "score_update" to both }; Sleep(3 s); next round
Score(h) ==
    /\ pc[h] = "score"
    /\ LET isP1 == playerID = room[myRoom[h]].PlayerID
           s1 == Bump(player1Score, answered /\ isP1)
           s2 == Bump(player2Score, answered /\ ~isP1)
       IN /\ player1Score' = s1
          /\ player2Score' = s2
          /\ sent' = IF answered
                       THEN Write2(sent, Player1Conn(h), Player2Conn(h),
                                   "score_update", "", "", s1, s2)
                       ELSE sent
    /\ questionCount' = questionCount + 1
    /\ question' = 0
    /\ playerID' = None
    /\ answered' = FALSE
    /\ answerRights' = Held(answerRights, listeners, {})
    /\ pc' = [pc EXCEPT ![h] = LoopPc(questionCount + 1, questionsPerGame)]
    /\ UNCHANGED <<matchVars, open, envVars, totalQuestions, usedQuestionIDs,
                   ratingCalls, listeners, readers, answerChan>>

\* case <-answerTimeout: "timeout" to both; Sleep(3 s); next round
RoundTimeout(h) ==
    /\ pc[h] = "roundTimeout"
    /\ sent' = Write2(sent, Player1Conn(h), Player2Conn(h), "timeout",
                      "", "", 0, 0)
    /\ questionCount' = questionCount + 1
    /\ question' = 0
    /\ answerRights' = Held(answerRights, listeners, {})
    /\ pc' = [pc EXCEPT ![h] = LoopPc(questionCount + 1, questionsPerGame)]
    /\ UNCHANGED <<matchVars, open, envVars, totalQuestions, usedQuestionIDs,
                   player1Score, player2Score, ratingCalls, listeners,
                   playerID, readers, answerChan, answered>>

\* ---- determineWinner ----------------------------------------------------
determineWinner(player1ID, player2ID, score1, score2) ==
    IF score1 > score2
      THEN [id |-> player1ID, loser_id |-> player2ID,
            message |-> "Player 1 wins"]
      ELSE IF score2 > score1
        THEN [id |-> player2ID, loser_id |-> player1ID,
              message |-> "Player 2 wins"]
        ELSE [id |-> "draw", message |-> "draw"]

\* m[k] of a Go map[string]string: "" for a missing key
MapGet(m, k) == IF k \in DOMAIN m THEN m[k] ELSE ""

Winner(h) ==
    determineWinner(room[myRoom[h]].PlayerID, room[myRoom[h]].Player2ID,
                    player1Score, player2Score)

\* "game_end" with the final scores and the winner, to both
Final(h) ==
    /\ pc[h] = "final"
    /\ sent' = Write2(sent, Player1Conn(h), Player2Conn(h), "game_end",
                      Winner(h).id, MapGet(Winner(h), "loser_id"),
                      player1Score, player2Score)
    /\ pc' = [pc EXCEPT ![h] = "rate"]
    /\ UNCHANGED <<matchVars, open, sessVars>>

\* updatePlayerRatings: nothing for "draw", else one request to the handler
updatePlayerRatings(calls, winnerID, loserID) ==
    IF winnerID = "draw" THEN calls ELSE Append(calls, <<winnerID, loserID>>)

Rate(h) ==
    /\ pc[h] = "rate"
    /\ ratingCalls' = updatePlayerRatings(ratingCalls, Winner(h).id,
                                          MapGet(Winner(h), "loser_id"))
    /\ Return(h)
    /\ UNCHANGED <<matchVars, sent, envVars, totalQuestions, questionCount,
                   usedQuestionIDs, question, player1Score,
                   player2Score, raceVars>>

\* ---- handleAnswerRequest ------------------------------------------------
\* capacity of the answerRights channel
ChanCap == 1

\* the select with default: the send succeeds iff the buffer has room
CanSend(buf) == Len(buf) < ChanCap

\* listener l returns; a channel that nobody holds any more is gone
Exit(chans, ls, l) == Held(chans, ls \ {l}, {questionCount})

\* one iteration of the read loop of listener l.  Listeners of earlier
\* rounds and answer readers may be blocked in ReadJSON on the same
\* connection: a message goes to any one of them; a read that breaks the
\* connection instead is ConnDrop
ListenerStep(l) ==
    /\ l \in listeners
    /\ IF ~open[l.conn]
         THEN /\ listeners' = listeners \ {l}          \* ReadJSON error
              /\ answerRights' = Exit(answerRights, listeners, l)
              /\ UNCHANGED <<inbox, sent>>
         ELSE /\ inbox[l.conn] # <<>>
              /\ inbox' = [inbox EXCEPT ![l.conn] = Tail(@)]
              /\ IF Head(inbox[l.conn]) = "answer_request"
                   THEN IF CanSend(answerRights[l.ch])
                          THEN /\ answerRights' =
                                    Exit([answerRights EXCEPT
                                            ![l.ch] = Append(@, l.id)],
                                         listeners, l)
                               /\ listeners' = listeners \ {l}
                               /\ UNCHANGED sent
                          ELSE /\ sent' = WriteJSON(sent, l.conn,
                                                    "answer_denied")
                               /\ UNCHANGED <<answerRights, listeners>>
                   ELSE UNCHANGED <<answerRights, listeners, sent>>
    /\ UNCHANGED <<matchVars, pc, open, dbQuestions, msgsLeft, gameVars,
                   playerID, readers, answerChan, answered>>

\* answer["answer"] of the message decoded into map[string]string
AnswerOf(m) == IF m = "answer_request" THEN "" ELSE m

\* handlePlayerAnswer's goroutine: one ReadJSON, then a send on the
\* unbuffered answerChan, which completes only while the select of its
\* own round is still waiting
ReaderStep(rd) ==
    /\ rd \in readers
    /\ readers' = readers \ {rd}
    /\ IF ~open[rd.conn]
         THEN UNCHANGED <<inbox, answerChan>>
         ELSE /\ inbox[rd.conn] # <<>>
              /\ inbox' = [inbox EXCEPT ![rd.conn] = Tail(@)]
              /\ IF /\ rd.ch = questionCount
                    /\ \E h \in Conns : pc[h] = "collect"
                    /\ answerChan = None
                   THEN answerChan' = AnswerOf(Head(inbox[rd.conn]))
                   ELSE UNCHANGED answerChan
    /\ UNCHANGED <<matchVars, pc, open, sent, dbQuestions, msgsLeft,
                   gameVars, answerRights, listeners, playerID, answered>>

\* ---- environment --------------------------------------------------------
ClientMsgs == {"answer_request", "x", "y"}

\* a client sends {type: "answer_request"} or {answer: m}
ClientSend(c) ==
    /\ pc[c] \notin {"idle", "done"}
    /\ open[c]
    /\ msgsLeft > 0
    /\ msgsLeft' = msgsLeft - 1
    /\ \E m \in ClientMsgs : inbox' = [inbox EXCEPT ![c] = Append(@, m)]
    /\ UNCHANGED <<matchVars, pc, open, sent, dbQuestions, gameVars,
                   raceVars>>

\* the peer goes away or the network fails: what it had sent is lost and
\* every ReadJSON blocked on the connection returns an error, on which the
\* goroutine calling it returns
ConnDrop(c) ==
    /\ pc[c] \notin {"idle", "done"}
    /\ open[c]
    /\ open' = [open EXCEPT ![c] = FALSE]
    /\ inbox' = [inbox EXCEPT ![c] = <<>>]
    /\ listeners' = {l \in listeners : l.conn # c}
    /\ readers' = {rd \in readers : rd.conn # c}
    /\ answerRights' = Held(answerRights, {l \in listeners : l.conn # c},
                            {questionCount})
    /\ UNCHANGED <<matchVars, pc, sent, dbQuestions, msgsLeft, gameVars,
                   playerID, answerChan, answered>>

\* ---- specifications -----------------------------------------------------
Next ==
    \E h \in Conns :
      \/ Connect(h)
      \/ Lock(h)
      \/ Scan(h)
      \/ Match(h)
      \/ NotifyP1(h)
      \/ NotifySelf(h)
      \/ Create(h)
      \/ SendWaiting(h)
      \/ WaitCheck(h)
      \/ WaitSelect(h)
      \/ WaitTick(h)
      \/ SessCount(h)
      \/ GameStart1(h)
      \/ GameStart2(h)

Spec == Init /\ [][Next]_vars

\* every goroutine that can run is eventually scheduled
HandlerStep(h) ==
    \/ Lock(h) \/ Scan(h) \/ Match(h) \/ NotifyP1(h) \/ NotifySelf(h)
    \/ Create(h) \/ SendWaiting(h) \/ WaitCheck(h) \/ WaitSelect(h)
    \/ WaitTick(h) \/ SessCount(h) \/ GameStart1(h) \/ GameStart2(h)

FairSpec == Spec /\ \A h \in Conns : WF_vars(HandlerStep(h))

\* a room matched between connections 1 (creator) and 2 (joiner); the
\* creator enters handleGameSession, the joiner sits in `select {}`
Matched12 ==
    /\ \E p1 \in PlayerIds : \E p2 \in PlayerIds \ {p1} :
         /\ room = (1 :> [NewRoom(1, p1, 1) EXCEPT !.Player2ID = p2,
                                                   !.IsMatched = TRUE,
                                                   !.Player2Conn = 2])
         /\ cookie = [h \in Conns |-> IF h = 1 THEN p1
                                      ELSE IF h = 2 THEN p2 ELSE NoCookie]
    /\ rooms = {1}
    /\ nextRoomID = 2
    /\ roomsMutex = Free
    /\ pc = [h \in Conns |-> IF h = 1 THEN "session"
                             ELSE IF h = 2 THEN "select" ELSE "idle"]
    /\ myRoom = [h \in Conns |-> IF h \in {1, 2} THEN 1 ELSE NoRoom]
    /\ open = [h \in Conns |-> TRUE]
    /\ sent = [h \in Conns |-> <<>>]
    /\ SessInit

InitSession ==
    /\ Matched12
    /\ dbQuestions \in 0..MaxSessionQuestions

NextSession ==
    \/ \E h \in Conns :
         \/ SessCount(h)
         \/ GameStart1(h)
         \/ GameStart2(h)
         \/ Draw(h)
         \/ SendQuestion(h)
         \/ Arm(h)
         \/ RaceClaimed(h)
         \/ RaceExpired(h)
         \/ Granted(h)
         \/ CollectAnswer(h)
         \/ CollectExpired(h)
         \/ Score(h)
         \/ RoundTimeout(h)
         \/ Final(h)
         \/ Rate(h)
         \/ ClientSend(h)
         \/ ConnDrop(h)
    \/ \E l \in listeners : ListenerStep(l)
    \/ \E rd \in readers : ReaderStep(rd)

SpecSession == InitSession /\ [][NextSession]_vars

\* the same session over every size of the questions table, with clients
\* that stay silent and connections that stay up
InitDraw ==
    /\ Matched12
    /\ dbQuestions \in 0..MaxQuestions

NextDraw ==
    \E h \in Conns :
      \/ SessCount(h)
      \/ GameStart1(h)
      \/ GameStart2(h)
      \/ Draw(h)
      \/ SendQuestion(h)
      \/ Arm(h)
      \/ RaceExpired(h)
      \/ RoundTimeout(h)
      \/ Final(h)
      \/ Rate(h)

SpecDraw == InitDraw /\ [][NextDraw]_vars

\* a query of the questions table returns an error to handler h
QueryError(h) == pc[h] \in {"session", "draw"} /\ pc'[h] = "done"

\* a step of handleGameSession in a duel whose collaborators work: the
\* database answers every query
DuelStep(h) ==
    \/ SessCount(h) /\ ~QueryError(h)
    \/ GameStart1(h)
    \/ GameStart2(h)
    \/ Draw(h) /\ ~QueryError(h)
    \/ SendQuestion(h)
    \/ Arm(h)
    \/ RaceClaimed(h)
    \/ RaceExpired(h)
    \/ Granted(h)
    \/ CollectAnswer(h)
    \/ CollectExpired(h)
    \/ Score(h)
    \/ RoundTimeout(h)
    \/ Final(h)
    \/ Rate(h)

\* the session with connections that stay up
NextDuel ==
    \/ \E h \in Conns :
         \/ DuelStep(h)
         \/ ClientSend(h)
    \/ \E l \in listeners : ListenerStep(l)
    \/ \E rd \in readers : ReaderStep(rd)

\* the handler's goroutine is scheduled, its sleeps and timers run out, and
\* ORDER BY RAND() does not return used rows for ever
FairDuel ==
    InitSession /\ [][NextDuel]_vars /\ \A h \in Conns : WF_vars(DuelStep(h))

\* ---- properties ---------------------------------------------------------
JoinerPcs == {"match", "notifyP1", "notifySelf", "select"}

\* the handlers that took room r as their matchedRoom
Joiners(r) == {h \in Conns : pc[h] \in JoinerPcs /\ myRoom[h] = r}

\* C1: a waiting room is paired with at most one joiner: a matched room
\* stays matched with the same second player and second connection, and
\* no two handlers ever hold the same room as their matchedRoom.
C1_NoDoublePairing ==
    [][/\ \A r \in DOMAIN room :
            room[r].IsMatched =>
              /\ room'[r].IsMatched
              /\ room'[r].Player2ID = room[r].Player2ID
              /\ room'[r].Player2Conn = room[r].Player2Conn
       /\ \A r \in DOMAIN room' : Cardinality(Joiners(r)') <= 1]_vars

\* a second newcomer whose id differs from the creator's scanned the
\* registry after the room had been matched and went on to create a room
C1_Witness ==
    \E r \in rooms : \E h \in Conns :
      /\ room[r].IsMatched
      /\ pc[h] = "create"
      /\ cookie[h] # room[r].PlayerID
      /\ h # room[r].Player2Conn

SessionPcs ==
    {"session", "gameStart1", "gameStart2", "draw", "sendQuestion", "arm",
     "race", "granted", "collect", "score", "roundTimeout", "final", "rate"}

\* positions inside a round: its question is drawn, its count not yet added
InRound ==
    {"sendQuestion", "arm", "race", "granted", "collect", "score",
     "roundTimeout"}

\* the two connections of the room whose session handler h runs
SessionConns(h) == {Player1Conn(h), Player2Conn(h)}

\* player ids named by "answer_rights_granted" on connection c in this round
GrantedIds(c) ==
    {sent[c][i].id :
       i \in {j \in 1..Len(sent[c]) :
                sent[c][j].status = "answer_rights_granted"}}

\* C2: in every round the right is announced at most once on each
\* connection, both announcements name the one player whose claim was
\* received, and the answer of the round is read only from the connection
\* that player is logged in on.
C2_SingleHolder ==
    \A h \in Conns :
      pc[h] \in SessionPcs =>
        LET named == GrantedIds(Player1Conn(h)) \cup
                     GrantedIds(Player2Conn(h))
        IN /\ \A c \in SessionConns(h) :
                Count(sent, c, "answer_rights_granted") <= 1
           /\ Cardinality(named) <= 1
           /\ named \subseteq {room[myRoom[h]].PlayerID,
                                room[myRoom[h]].Player2ID}
           /\ pc[h] = "collect" => named = {playerID}
           /\ \A rd \in readers :
                rd.ch = questionCount => cookie[rd.conn] = playerID

\* both players asked for the right in one round: one was granted it and
\* the other was denied
C2_Witness ==
    \E h \in Conns :
      /\ pc[h] = "collect"
      /\ \E c \in SessionConns(h) : "answer_denied" \in Statuses(sent, c)

\* C3: once the session has taken a claim out of the round's channel, a
\* later answer_request of the round never gets into the channel.
C3_LateRequestDenied ==
    \A h \in Conns :
      pc[h] \in {"granted", "collect", "score"} =>
        answerRights[questionCount] = <<>>

\* C4: once matched, both participants proceed to session start; no handler
\* stays for ever at the point it reached after the "matched" notification.
C4_BothProceed ==
    \A h \in Conns : (pc[h] = "select") ~> (pc[h] # "select")

WaitPcs == {"sendWaiting", "waitCheck", "waitSelect", "waitTick"}

\* waitForMatch of handler h returned false
TimedOut(h) ==
    pc[h] = "done" /\ myRoom[h] # NoRoom /\ ~room[myRoom[h]].IsMatched

\* C5: a creator whose wait ends without a peer finds its room removed from
\* the registry, has been sent exactly one "timeout" and neither "matched"
\* nor "game_start"; until then its room stays registered and no "timeout"
\* has been sent.
C5_WaitTimeout ==
    \A h \in Conns :
      /\ TimedOut(h) =>
           /\ myRoom[h] \notin rooms
           /\ Count(sent, h, "timeout") = 1
           /\ Statuses(sent, h) \cap {"matched", "game_start"} = {}
      /\ (pc[h] \in WaitPcs /\ ~room[myRoom[h]].IsMatched) =>
           /\ myRoom[h] \in rooms
           /\ Count(sent, h, "timeout") = 0

\* a creator timed out while another room is still waiting
C5_Witness ==
    \E h \in Conns : TimedOut(h) /\ rooms # {}

\* C6: the questions of a session are pairwise different and a session that
\* reached game_end played min(5, rows) rounds: the used ids are as many as
\* the questions drawn, every round broadcasts the id it drew, and at
\* game_end the round count is min(number_of_questions, dbQuestions).
C6_Questions ==
    \A h \in Conns :
      pc[h] \in SessionPcs =>
        /\ Cardinality(usedQuestionIDs) =
             questionCount + (IF pc[h] \in InRound THEN 1 ELSE 0)
        /\ pc[h] \in InRound => question \in usedQuestionIDs
        /\ pc[h] \in InRound \ {"sendQuestion"} =>
             \A c \in SessionConns(h) :
               /\ Count(sent, c, "question") = 1
               /\ \A i \in 1..Len(sent[c]) :
                    sent[c][i].status = "question" =>
                      sent[c][i].n1 = question
        /\ pc[h] = "rate" =>
             /\ questionCount = Min(number_of_questions, dbQuestions)
             /\ "game_end" \in Statuses(sent, Player1Conn(h))

\* a session over more rows than the nominal round count reached game_end
C6_Witness ==
    \E h \in Conns :
      /\ pc[h] = "rate"
      /\ dbQuestions > number_of_questions
      /\ questionCount = number_of_questions

\* C7: with an empty questions table the session ends as a failure:
\* no "game_end" result is written to a player.
C7_NoQuestionsFails ==
    \A h \in Conns :
      (myRoom[h] # NoRoom /\ dbQuestions = 0) =>
        \A c \in SessionConns(h) :
          "game_end" \notin Statuses(sent, c)

\* C8: a failed write is the last write of the session: no connection is
\* written again after a write to it failed.
C8_AbortOnSendFailure ==
    \A c \in Conns : \A i \in 1..(Len(sent[c]) - 1) : sent[c][i].ok

\* C9: no score ever decreases; the scores change only as a round ends, one
\* of them, by one, for the player named as holder of the right and judged
\* correct; their sum never exceeds the rounds played.
C9_Scores ==
    [][/\ player1Score' >= player1Score
       /\ player2Score' >= player2Score
       /\ player1Score' + player2Score' <= questionCount'
       /\ <<player1Score', player2Score'>> # <<player1Score, player2Score>> =>
            \E h \in Conns :
              /\ pc[h] = "score"
              /\ questionCount' = questionCount + 1
              /\ player1Score' + player2Score' =
                   player1Score + player2Score + 1
              /\ answered
              /\ GrantedIds(Player1Conn(h)) = {playerID}
              /\ \E i \in 1..Len(sent[Player1Conn(h)]) :
                   /\ sent[Player1Conn(h)][i].status = "answer_result"
                   /\ sent[Player1Conn(h)][i].id = "correct"
              /\ player1Score' > player1Score =>
                   playerID = room[myRoom[h]].PlayerID
              /\ player2Score' > player2Score =>
                   playerID = room[myRoom[h]].Player2ID]_vars

\* a player scored in the second round of a session
C9_Witness ==
    \E h \in Conns :
      pc[h] = "final" /\ questionCount = 2 /\ player2Score = 1

\* C10: the winner id of game_end is "draw" exactly when the final scores
\* are equal; otherwise it is the id of the player with the higher score
\* and loser_id is the other player's; a draw carries no loser_id.
C10_Outcome ==
    \A h \in Conns :
      pc[h] = "rate" =>
        LET w == Winner(h) r == room[myRoom[h]] IN
          /\ w.id = "draw" <=> player1Score = player2Score
          /\ player1Score > player2Score =>
               w.id = r.PlayerID /\ MapGet(w, "loser_id") = r.Player2ID
          /\ player2Score > player1Score =>
               w.id = r.Player2ID /\ MapGet(w, "loser_id") = r.PlayerID
          /\ player1Score = player2Score => "loser_id" \notin DOMAIN w

\* the session of handler h has written game_end and returned
Finished(h) ==
    /\ pc[h] = "done"
    /\ myRoom[h] # NoRoom
    /\ "game_end" \in Statuses(sent, Player1Conn(h))

\* C11: no rating request is made before game_end has been written to both
\* players; a finished duel with different final scores has made exactly one
\* request, for (winner, loser), and one with equal scores has made none.
C11_RatingOnce ==
    \A h \in Conns :
      /\ (pc[h] \in SessionPcs /\ myRoom[h] # NoRoom) => ratingCalls = <<>>
      /\ Finished(h) =>
           LET r == room[myRoom[h]] IN
             /\ player1Score > player2Score =>
                  ratingCalls = <<<<r.PlayerID, r.Player2ID>>>>
             /\ player2Score > player1Score =>
                  ratingCalls = <<<<r.Player2ID, r.PlayerID>>>>
             /\ player1Score = player2Score => ratingCalls = <<>>

\* C12: a round whose race ends by the 10 s timer announces no right and no
\* score; as it ends, "timeout" has been written once to each player, the
\* scores are unchanged and the session goes on to the next round, or to
\* the final result after the last one.
C12_RaceTimeout ==
    [][\A h \in Conns :
         pc[h] = "roundTimeout" =>
           /\ playerID = None
           /\ \A c \in SessionConns(h) :
                Statuses(sent, c) \cap
                  {"answer_rights_granted", "answer_result",
                   "score_update", "timeout"} = {}
           /\ pc'[h] # "roundTimeout" =>
                /\ \A c \in SessionConns(h) :
                     /\ Count(sent', c, "timeout") = 1
                     /\ Statuses(sent', c) \cap
                          {"answer_rights_granted", "answer_result",
                           "score_update"} = {}
                /\ player1Score' = player1Score
                /\ player2Score' = player2Score
                /\ questionCount' = questionCount + 1
                /\ pc'[h] = IF questionCount + 1 <
                                Min(number_of_questions, dbQuestions)
                              THEN "draw" ELSE "final"]_vars

\* after a round that timed out the session stands before its second round
C12_Witness ==
    \E h \in Conns :
      /\ pc[h] = "draw"
      /\ questionCount = 1
      /\ \A c \in SessionConns(h) : "timeout" \in Statuses(sent, c)

\* the round that just ended: positions between two rounds and after the last
BetweenRounds == {"draw", "final", "rate"}

\* answer_result entries written to connection c in this round
Judgements(c) ==
    {i \in 1..Len(sent[c]) : sent[c][i].status = "answer_result"}

\* C13 as claimed: a round that ended has written score_update to both
\* players exactly if an answer of the round was judged, correct or not.
C13_UpdateWhenJudged ==
    \A h \in Conns :
      (pc[h] \in BetweenRounds /\ myRoom[h] # NoRoom) =>
        \A c \in SessionConns(h) :
          Count(sent, c, "score_update") =
            IF Judgements(c) # {} THEN 1 ELSE 0

\* C13 amended: a round that ended has written score_update, carrying both
\* scores, to both players exactly if the holder's answer was judged
\* correct; a round still running has written none.
C13_UpdateWhenCorrect ==
    \A h \in Conns :
      (pc[h] \in SessionPcs /\ myRoom[h] # NoRoom) =>
        \A c \in SessionConns(h) :
          /\ pc[h] \in BetweenRounds =>
               Count(sent, c, "score_update") =
                 IF \E i \in Judgements(c) : sent[c][i].id = "correct"
                   THEN 1 ELSE 0
          /\ pc[h] \notin BetweenRounds =>
               Count(sent, c, "score_update") = 0
          /\ \A i \in 1..Len(sent[c]) :
               sent[c][i].status = "score_update" =>
                 /\ sent[c][i].n1 = player1Score
                 /\ sent[c][i].n2 = player2Score

\* the second round ended with a correct answer and its score_update
C13_Witness ==
    \E h \in Conns :
      /\ pc[h] = "final"
      /\ "score_update" \in Statuses(sent, Player2Conn(h))
      /\ questionCount = 2

\* the session of handler h is over: it returned after it had been matched
SessionOver(h) ==
    pc[h] = "done" /\ myRoom[h] # NoRoom /\ room[myRoom[h]].IsMatched

\* C14: once the session of a room is over, finished or aborted, the room
\* is no longer in the registry.
C14_RoomRemoved ==
    \A h \in Conns : SessionOver(h) => myRoom[h] \notin rooms

\* the rooms of the registry in which player id waits for a peer
WaitingRooms(id) ==
    {r \in rooms : room[r].PlayerID = id /\ ~room[r].IsMatched}

\* C15: the registry never holds two waiting rooms of one player id, and no
\* room has one id as both of its players.
C15_OneRoomPerPlayer ==
    /\ \A id \in PlayerIds : Cardinality(WaitingRooms(id)) <= 1
    /\ \A r \in DOMAIN room :
         room[r].Player2ID # "" => room[r].Player2ID # room[r].PlayerID

\* the connection of the player who holds the answer right in h's session
Holder(h) == HolderConn(room[myRoom[h]], playerID)

\* the next message of the holder is the correct answer, and this step reads
\* it while handlePlayerAnswer waits for the answer
CorrectAnswerRead(h) ==
    /\ pc[h] = "collect"
    /\ answerChan = None
    /\ open[Holder(h)] /\ open'[Holder(h)]
    /\ inbox[Holder(h)] # <<>>
    /\ Head(inbox[Holder(h)]) = CorrectAnswer(question)
    /\ inbox'[Holder(h)] = Tail(inbox[Holder(h)])

\* C16: in every round, the correct answer that the holder of the answer
\* right submits before the answer deadline is the answer that is collected
\* and judged.
C16_HolderAnswerCollected ==
    [][\A h \in Conns :
         CorrectAnswerRead(h) => answerChan' = CorrectAnswer(question)]_vars

\* C17: the timeout of a waiting room and its pairing exclude each other: a
\* room that a newcomer took or matched is in the registry (the timeout path
\* never removed it, and a removed room is never taken), and no connection
\* is sent both "timeout" and "matched".
C17_TimeoutXorPairing ==
    /\ \A r \in DOMAIN room :
         (room[r].IsMatched \/ Joiners(r) # {}) => r \in rooms
    /\ \A h \in Conns :
         ~({"timeout", "matched"} \subseteq Statuses(sent, h))

\* the ticker branch of a creator runs after a newcomer matched its room,
\* while the room of a creator that timed out is gone
C17_Witness ==
    \E h \in Conns : \E g \in Conns :
      /\ pc[h] = "waitTick" /\ room[myRoom[h]].IsMatched
      /\ TimedOut(g) /\ myRoom[g] \notin rooms

\* the player id that handleGameSession passes to the listener of c
IdOf(h, c) ==
    IF c = Player1Conn(h) THEN room[myRoom[h]].PlayerID
                          ELSE room[myRoom[h]].Player2ID

\* while the race of h's session is open and its slot empty, this step reads
\* the only message pending in the session, an "answer_request" on c
SoleRequestRead(h, c) ==
    /\ answerRights[questionCount] = <<>>
    /\ open[c] /\ open'[c]
    /\ inbox[c] = <<"answer_request">> /\ inbox'[c] = <<>>
    /\ \A d \in {Player1Conn(h), Player2Conn(h)} \ {c} : inbox[d] = <<>>

\* C18: in any round, an "answer_request" that one player alone sends into
\* the open race window claims the slot of that round for that player.
C18_SoleRequestGranted ==
    [][\A h \in Conns :
         pc[h] = "race" =>
           \A c \in {Player1Conn(h), Player2Conn(h)} :
             SoleRequestRead(h, c) =>
               answerRights'[questionCount] = <<IdOf(h, c)>>]_vars

\* "game_end" has been written to both connections of h's room
GameEnded(h) ==
    /\ "game_end" \in Statuses(sent, Player1Conn(h))
    /\ "game_end" \in Statuses(sent, Player2Conn(h))

Creators == {room[r].Player1Conn : r \in DOMAIN room}

\* every `later` written to c comes after some `earlier` written to c
Precedes(c, earlier, later) ==
    \A j \in 1..Len(sent[c]) :
      sent[c][j].status = later =>
        \E i \in 1..(j - 1) : sent[c][i].status = earlier

\* handler g is about to write to connection c
AboutToWrite(g, c) ==
    \/ g = c /\ pc[g] \in {"sendWaiting", "gameStart1"}
    \/ pc[g] = "notifyP1" /\ room[myRoom[g]].Player1Conn = c

\* C20: the creator of a room is sent "waiting" before "matched" and
\* "matched" before "game_start", and no two handlers are writing to its
\* connection at the same time.
C20_CreatorLifecycleOrder ==
    \A c \in Creators :
      /\ Precedes(c, "waiting", "matched")
      /\ Precedes(c, "matched", "game_start")
      /\ Cardinality({g \in Conns : AboutToWrite(g, c)}) <= 1

====
